---------------------------- MODULE Spec2Model ----------------------------
(***************************************************************************)
(* A model of src/Utilities.js (apps-script-oauth2): buildUrl_, validate_, *)
(* getTimeInSeconds_, extend_, toLowerCaseKeys_, encodeJwt_ and decodeJwt_.*)
(*                                                                         *)
(* JavaScript strings are sequences of one-character strings.  JavaScript  *)
(* values are tagged records [t, v]; objects live in a heap (a sequence of *)
(* objects, a reference is an index) so that identity, aliasing and        *)
(* mutation of arguments are observable.  An object is the sequence of its *)
(* own <<key, value>> properties in insertion order.                       *)
(***************************************************************************)
EXTENDS Integers, Sequences, FiniteSets, TLC

VARIABLES heap, last

vars == <<heap, last>>

-----------------------------------------------------------------------------
(* Characters: the printable ASCII range, code points 32..126.  The entry  *)
(* for code point 96 is spelled GRAVE (a string literal cannot hold it).   *)

AsciiTable ==
  << " ", "!", "\"", "#", "$", "%", "&", "'", "(", ")", "*", "+", ",", "-",
     ".", "/", "0", "1", "2", "3", "4", "5", "6", "7", "8", "9", ":", ";",
     "<", "=", ">", "?", "@", "A", "B", "C", "D", "E", "F", "G", "H", "I",
     "J", "K", "L", "M", "N", "O", "P", "Q", "R", "S", "T", "U", "V", "W",
     "X", "Y", "Z", "[", "\\", "]", "^", "_", "GRAVE", "a", "b", "c", "d", "e",
     "f", "g", "h", "i", "j", "k", "l", "m", "n", "o", "p", "q", "r", "s",
     "t", "u", "v", "w", "x", "y", "z", "{", "|", "}", "~" >>

CharSet == { AsciiTable[i] : i \in DOMAIN AsciiTable }

\* The character standing for any byte outside the printable range.
BadChar == "NONPRINT"

OrdTable == [ c \in CharSet |-> 31 + (CHOOSE i \in DOMAIN AsciiTable : AsciiTable[i] = c) ]

Ord(c) == IF c \in CharSet THEN OrdTable[c] ELSE 0

Chr(b) == IF b >= 32 /\ b <= 126 THEN AsciiTable[b - 31] ELSE BadChar

Digits == << "0", "1", "2", "3", "4", "5", "6", "7", "8", "9" >>

HexDigits == << "0", "1", "2", "3", "4", "5", "6", "7", "8", "9",
                "A", "B", "C", "D", "E", "F" >>

IsDigit(c) == Ord(c) >= 48 /\ Ord(c) <= 57

IsUpper(c) == Ord(c) >= 65 /\ Ord(c) <= 90

IsAlpha(c) == IsUpper(c) \/ (Ord(c) >= 97 /\ Ord(c) <= 122)

-----------------------------------------------------------------------------
(* String primitives of the host language.                                 *)

Range(s) == { s[i] : i \in DOMAIN s }

\* String.prototype.indexOf(c) for a one-character needle, 0-based, -1 if absent.
indexOf(s, c) ==
  IF c \in Range(s) THEN (CHOOSE i \in DOMAIN s : s[i] = c /\ \A j \in 1..(i-1) : s[j] # c) - 1
  ELSE -1

\* String.prototype.split(c) for a one-character separator.
RECURSIVE split(_, _)
split(s, c) ==
  LET i == indexOf(s, c)
  IN  IF i < 0 THEN << s >>
      ELSE << SubSeq(s, 1, i) >> \o split(SubSeq(s, i + 2, Len(s)), c)

\* Array.prototype.join(sep).
RECURSIVE join(_, _)
join(parts, sep) ==
  IF Len(parts) = 0 THEN << >>
  ELSE IF Len(parts) = 1 THEN parts[1]
  ELSE parts[1] \o sep \o join(Tail(parts), sep)

\* String.prototype.toLowerCase().
toLowerCase(s) ==
  [ i \in DOMAIN s |-> IF IsUpper(s[i]) THEN Chr(Ord(s[i]) + 32) ELSE s[i] ]

\* Number to decimal string, as String(n) for an integer n.
RECURSIVE NatToString(_)
NatToString(n) ==
  IF n < 10 THEN << Digits[n + 1] >>
  ELSE NatToString(n \div 10) \o << Digits[(n % 10) + 1] >>

IntToString(n) == IF n < 0 THEN << "-" >> \o NatToString(-n) ELSE NatToString(n)

-----------------------------------------------------------------------------
(* Host primitives: Utilities.base64EncodeWebSafe / base64DecodeWebSafe,   *)
(* Utilities.newBlob(bytes).getDataAsString() and encodeURIComponent.      *)

Base64WebSafeAlphabet ==
  << "A", "B", "C", "D", "E", "F", "G", "H", "I", "J", "K", "L", "M", "N",
     "O", "P", "Q", "R", "S", "T", "U", "V", "W", "X", "Y", "Z", "a", "b",
     "c", "d", "e", "f", "g", "h", "i", "j", "k", "l", "m", "n", "o", "p",
     "q", "r", "s", "t", "u", "v", "w", "x", "y", "z", "0", "1", "2", "3",
     "4", "5", "6", "7", "8", "9", "-", "_" >>

Base64Chars == { Base64WebSafeAlphabet[i] : i \in DOMAIN Base64WebSafeAlphabet }

SextetTable ==
  [ c \in Base64Chars |->
      (CHOOSE i \in DOMAIN Base64WebSafeAlphabet : Base64WebSafeAlphabet[i] = c) - 1 ]

Pow2(n) == IF n = 0 THEN 1 ELSE IF n = 2 THEN 4 ELSE IF n = 4 THEN 16
           ELSE IF n = 6 THEN 64 ELSE IF n = 8 THEN 256 ELSE IF n = 12 THEN 4096
           ELSE IF n = 16 THEN 65536 ELSE 262144

\* The bytes of a string (the strings of the model are ASCII, one byte each).
StringBytes(s) == [ i \in DOMAIN s |-> Ord(s[i]) ]

\* Base64, URL-safe alphabet, padded with "=" to a multiple of four, of bytes.
base64EncodeBytes(bytes) ==
  LET n == Len(bytes)
      byteAt(k) == IF k <= n THEN bytes[k] ELSE 0
      group(g) == byteAt(3 * g + 1) * 65536 + byteAt(3 * g + 2) * 256 + byteAt(3 * g + 3)
      sextet(g, pos) == (group(g) \div Pow2(6 * (3 - pos))) % 64
  IN  [ j \in 1..(4 * ((n + 2) \div 3)) |->
          LET g == (j - 1) \div 4
              pos == (j - 1) % 4
          IN  IF pos = 2 /\ 3 * g + 2 > n THEN "="
              ELSE IF pos = 3 /\ 3 * g + 3 > n THEN "="
              ELSE Base64WebSafeAlphabet[sextet(g, pos) + 1] ]

\* Utilities.base64EncodeWebSafe(string).
base64EncodeWebSafe(s) == base64EncodeBytes(StringBytes(s))

\* A string without its trailing "=" padding.
RECURSIVE StripPadding(_)
StripPadding(s) ==
  IF Len(s) > 0 /\ s[Len(s)] = "=" THEN StripPadding(SubSeq(s, 1, Len(s) - 1)) ELSE s

\* Utilities.base64DecodeWebSafe(string): the bytes, or a failure on input that
\* is not base64 (a character outside the alphabet, an impossible length).
base64DecodeWebSafe(arg) ==
  LET s == StripPadding(arg)
      m == Len(s)
      sx(k) == IF k <= m THEN SextetTable[s[k]] ELSE 0
      \* byte k (1-based) is the 8 bits from bit 8*(k-1) of the 6-bit stream
      byte(k) ==
        LET bit == 8 * (k - 1)
            i == (bit \div 6) + 1
            off == bit % 6
            two == sx(i) * 64 + sx(i + 1)
        IN  (two \div Pow2(4 - off)) % 256
  IN  IF (\E k \in 1..m : s[k] \notin Base64Chars) \/ m % 4 = 1
        THEN [ok |-> FALSE, v |-> << >>]
        ELSE [ok |-> TRUE, v |-> [ k \in 1..((m * 6) \div 8) |-> byte(k) ]]

\* Utilities.newBlob(bytes).getDataAsString().
getDataAsString(bytes) == [ i \in DOMAIN bytes |-> Chr(bytes[i]) ]

\* The characters encodeURIComponent leaves as they are.
UriUnreserved(c) ==
  IsAlpha(c) \/ IsDigit(c) \/ c \in { "-", "_", ".", "!", "~", "*", "'", "(", ")" }

RECURSIVE encodeURIComponent(_)
encodeURIComponent(s) ==
  IF Len(s) = 0 THEN << >>
  ELSE (IF UriUnreserved(s[1]) THEN << s[1] >>
        ELSE << "%", HexDigits[(Ord(s[1]) \div 16) + 1], HexDigits[(Ord(s[1]) % 16) + 1] >>)
       \o encodeURIComponent(Tail(s))

-----------------------------------------------------------------------------
(* JavaScript values and objects.                                          *)

Str(s) == [t |-> "str", s |-> s]

Num(n) == [t |-> "num", n |-> n]

Bool(b) == [t |-> "bool", b |-> b]

Null == [t |-> "null"]

Undefined == [t |-> "undef"]

\* A reference to the heap object at index r.
Ref(r) == [t |-> "ref", r |-> r]

\* A function value, by the name of the signing capability it is.
Fn(name) == [t |-> "fn", f |-> name]

\* An object that is not in the heap (a freshly parsed one), by its properties.
Obj(props) == [t |-> "obj", p |-> props]

\* typeof v === 'object' (null included, as in the language).
TypeofIsObject(v) == v.t \in {"ref", "obj", "null"}

\* ToBoolean: the truthiness the `!value` test of validate_ uses.
ToBoolean(v) ==
  CASE v.t = "str" -> Len(v.s) > 0
    [] v.t = "num" -> v.n # 0
    [] v.t = "bool" -> v.b
    [] v.t = "null" -> FALSE
    [] v.t = "undef" -> FALSE
    [] OTHER -> TRUE

\* ToString: what encodeURIComponent and string concatenation make of a value.
ToStringJS(v) ==
  CASE v.t = "str" -> v.s
    [] v.t = "num" -> IntToString(v.n)
    [] v.t = "bool" -> IF v.b THEN << "t", "r", "u", "e" >> ELSE << "f", "a", "l", "s", "e" >>
    [] v.t = "null" -> << "n", "u", "l", "l" >>
    [] v.t = "undef" -> << "u", "n", "d", "e", "f", "i", "n", "e", "d" >>
    [] v.t = "fn" -> << "f", "u", "n", "c", "t", "i", "o", "n" >>
    [] OTHER -> << "[", "o", "b", "j", "e", "c", "t", " ", "O", "b", "j", "e", "c", "t", "]" >>

\* A canonical array index ("0", "7", "12"): such keys are enumerated first.
IsIndexKey(k) ==
  /\ Len(k) > 0
  /\ \A i \in DOMAIN k : IsDigit(k[i])
  /\ (Len(k) = 1 \/ k[1] # "0")

RECURSIVE StringToNat(_)
StringToNat(k) ==
  IF Len(k) = 0 THEN 0
  ELSE 10 * StringToNat(SubSeq(k, 1, Len(k) - 1)) + (Ord(k[Len(k)]) - 48)

RECURSIVE SortIndexKeys(_)
SortIndexKeys(ks) ==
  IF ks = {} THEN << >>
  ELSE LET m == CHOOSE k \in ks : \A o \in ks : StringToNat(k) <= StringToNat(o)
       IN  << m >> \o SortIndexKeys(ks \ {m})

\* The keys of a property sequence that satisfy / do not satisfy IsIndexKey.
RECURSIVE NamedKeys(_)
NamedKeys(props) ==
  IF Len(props) = 0 THEN << >>
  ELSE (IF IsIndexKey(props[1][1]) THEN << >> ELSE << props[1][1] >>) \o NamedKeys(Tail(props))

\* Object.keys(o): index keys in ascending numeric order, then the other keys
\* in insertion order.
ObjectKeys(props) ==
  SortIndexKeys({ props[i][1] : i \in { j \in DOMAIN props : IsIndexKey(props[j][1]) } })
    \o NamedKeys(props)

HasProp(props, k) == \E i \in DOMAIN props : props[i][1] = k

\* o[k]
GetProp(props, k) ==
  IF HasProp(props, k) THEN props[CHOOSE i \in DOMAIN props : props[i][1] = k][2]
  ELSE Undefined

\* o[k] = v: an existing property keeps its place, a new one is added last.
SetProp(props, k, v) ==
  IF HasProp(props, k)
    THEN [ i \in DOMAIN props |-> IF props[i][1] = k THEN << k, v >> ELSE props[i] ]
    ELSE Append(props, << k, v >>)

\* The properties of an object value, in the heap or not.
PropsOf(h, v) == IF v.t = "ref" THEN h[v.r] ELSE IF v.t = "obj" THEN v.p ELSE << >>

-----------------------------------------------------------------------------
(* Host primitives: JSON.stringify and JSON.parse, for values built from   *)
(* strings, integers, booleans, null and objects (no arrays, no fractions, *)
(* no whitespace between tokens, no \u escapes).                           *)

RECURSIVE JSONEscape(_)
JSONEscape(s) ==
  IF Len(s) = 0 THEN << >>
  ELSE (IF s[1] = "\"" \/ s[1] = "\\" THEN << "\\", s[1] >> ELSE << s[1] >>)
       \o JSONEscape(Tail(s))

JSONQuote(s) == << "\"" >> \o JSONEscape(s) \o << "\"" >>

\* JSON.stringify(v).  ok = FALSE: it throws (a cyclic structure).  def = FALSE:
\* it returns undefined (v is undefined or a function); such a property is
\* left out of the enclosing object.
RECURSIVE JSONstringify(_, _, _)
RECURSIVE StringifyMembers(_, _, _, _)
StringifyMembers(h, props, keys, visited) ==
  IF Len(keys) = 0 THEN [ok |-> TRUE, parts |-> << >>]
  ELSE LET one == JSONstringify(h, GetProp(props, keys[1]), visited)
           rest == StringifyMembers(h, props, Tail(keys), visited)
       IN  IF ~one.ok \/ ~rest.ok THEN [ok |-> FALSE, parts |-> << >>]
           ELSE IF ~one.def THEN rest
           ELSE [ok |-> TRUE,
                 parts |-> << JSONQuote(keys[1]) \o << ":" >> \o one.v >> \o rest.parts]

JSONstringify(h, v, visited) ==
  CASE v.t = "str" -> [ok |-> TRUE, def |-> TRUE, v |-> JSONQuote(v.s)]
    [] v.t \in {"num", "bool", "null"} -> [ok |-> TRUE, def |-> TRUE, v |-> ToStringJS(v)]
    [] v.t \in {"undef", "fn"} -> [ok |-> TRUE, def |-> FALSE, v |-> << >>]
    [] OTHER ->
         IF v.t = "ref" /\ v.r \in visited THEN [ok |-> FALSE, def |-> FALSE, v |-> << >>]
         ELSE LET props == PropsOf(h, v)
                  seen == IF v.t = "ref" THEN visited \cup {v.r} ELSE visited
                  ms == StringifyMembers(h, props, ObjectKeys(props), seen)
              IN  IF ~ms.ok THEN [ok |-> FALSE, def |-> FALSE, v |-> << >>]
                  ELSE [ok |-> TRUE, def |-> TRUE,
                        v |-> << "{" >> \o join(ms.parts, << "," >>) \o << "}" >>]

At(s, i) == IF i >= 1 /\ i <= Len(s) THEN s[i] ELSE ""

ParseFail == [ok |-> FALSE, v |-> Undefined, next |-> 0]

\* The characters of a string literal from position j on, up to its closing quote.
RECURSIVE ScanString(_, _, _)
ScanString(s, j, acc) ==
  IF j > Len(s) THEN ParseFail
  ELSE IF s[j] = "\"" THEN [ok |-> TRUE, v |-> Str(acc), next |-> j + 1]
  ELSE IF s[j] = "\\"
    THEN IF At(s, j + 1) \in {"\"", "\\", "/"}
           THEN ScanString(s, j + 2, Append(acc, s[j + 1]))
         ELSE IF At(s, j + 1) \in {"b", "f", "n", "r", "t"}
           THEN ScanString(s, j + 2, Append(acc, BadChar))
         ELSE ParseFail
  ELSE ScanString(s, j + 1, Append(acc, s[j]))

\* The end (exclusive) of the run of digits starting at j.
RECURSIVE DigitsEnd(_, _)
DigitsEnd(s, j) == IF j <= Len(s) /\ IsDigit(s[j]) THEN DigitsEnd(s, j + 1) ELSE j

ParseNumber(s, i) ==
  LET neg == At(s, i) = "-"
      from == IF neg THEN i + 1 ELSE i
      to == DigitsEnd(s, from)
      digits == SubSeq(s, from, to - 1)
  IN  IF to = from \/ (to - from > 1 /\ s[from] = "0") THEN ParseFail
      ELSE [ok |-> TRUE,
            v |-> Num(IF neg THEN -StringToNat(digits) ELSE StringToNat(digits)),
            next |-> to]

ParseLiteral(s, i, word, value) ==
  IF i + Len(word) - 1 <= Len(s) /\ SubSeq(s, i, i + Len(word) - 1) = word
    THEN [ok |-> TRUE, v |-> value, next |-> i + Len(word)]
    ELSE ParseFail

RECURSIVE ParseValue(_, _)
RECURSIVE ParseMembers(_, _, _)
ParseMembers(s, i, props) ==
  IF At(s, i) # "\"" THEN ParseFail
  ELSE LET key == ScanString(s, i + 1, << >>)
       IN  IF ~key.ok \/ At(s, key.next) # ":" THEN ParseFail
           ELSE LET val == ParseValue(s, key.next + 1)
                IN  IF ~val.ok THEN ParseFail
                    ELSE LET now == SetProp(props, key.v.s, val.v)
                         IN  IF At(s, val.next) = "," THEN ParseMembers(s, val.next + 1, now)
                             ELSE IF At(s, val.next) = "}"
                               THEN [ok |-> TRUE, v |-> Obj(now), next |-> val.next + 1]
                             ELSE ParseFail

ParseValue(s, i) ==
  LET c == At(s, i)
  IN  IF c = "{"
        THEN IF At(s, i + 1) = "}" THEN [ok |-> TRUE, v |-> Obj(<< >>), next |-> i + 2]
             ELSE ParseMembers(s, i + 1, << >>)
      ELSE IF c = "\"" THEN ScanString(s, i + 1, << >>)
      ELSE IF c = "-" \/ (c \in CharSet /\ IsDigit(c)) THEN ParseNumber(s, i)
      ELSE IF c = "t" THEN ParseLiteral(s, i, << "t", "r", "u", "e" >>, Bool(TRUE))
      ELSE IF c = "f" THEN ParseLiteral(s, i, << "f", "a", "l", "s", "e" >>, Bool(FALSE))
      ELSE IF c = "n" THEN ParseLiteral(s, i, << "n", "u", "l", "l" >>, Null)
      ELSE ParseFail

\* JSON.parse(text): the value, or a failure (a SyntaxError).
JSONparse(s) ==
  LET r == ParseValue(s, 1)
  IN  IF r.ok /\ r.next = Len(s) + 1 THEN [ok |-> TRUE, v |-> r.v]
      ELSE [ok |-> FALSE, v |-> Undefined]

-----------------------------------------------------------------------------
(* The functions of Utilities.js.  Each takes the heap h it runs on (when  *)
(* it touches objects) and yields [h, ok, v]: the heap it leaves, whether   *)
(* it returned (ok) or threw, and the value returned or the error message. *)

Returned(h, v) == [h |-> h, ok |-> TRUE, v |-> v]

Threw(h, message) == [h |-> h, ok |-> FALSE, v |-> Str(message)]

\* The message of an error the host raises (its text is not modelled).
HostError == << "h", "o", "s", "t", " ", "e", "r", "r", "o", "r" >>

IsRequired == << " ", "i", "s", " ", "r", "e", "q", "u", "i", "r", "e", "d", "." >>

\* buildUrl_ with the test for '?' written `url.indexOf('?') > 0`.
buildUrl_IndexAboveZero(h, url, params) ==
  LET props == PropsOf(h, params)
      keys == ObjectKeys(props)
      pairs == [ i \in DOMAIN keys |->
                   encodeURIComponent(keys[i]) \o << "=" >>
                     \o encodeURIComponent(ToStringJS(GetProp(props, keys[i]))) ]
  IN  Returned(h, Str(url \o (IF indexOf(url, "?") > 0 THEN << "&" >> ELSE << "?" >>)
                          \o join(pairs, << "&" >>)))

buildUrl_(h, url, params) ==
  LET props == PropsOf(h, params)
      keys == ObjectKeys(props)
      pairs == [ i \in DOMAIN keys |->
                   encodeURIComponent(keys[i]) \o << "=" >>
                     \o encodeURIComponent(ToStringJS(GetProp(props, keys[i]))) ]
      paramString == join(pairs, << "&" >>)
  IN  Returned(h, Str(url \o (IF indexOf(url, "?") >= 0 THEN << "&" >> ELSE << "?" >>)
                          \o paramString))

\* The forEach of validate_ over the keys still to visit.
RECURSIVE validateEach(_, _, _)
validateEach(h, props, keys) ==
  IF Len(keys) = 0 THEN Returned(h, Undefined)
  ELSE LET name == keys[1]
           value == GetProp(props, name)
       IN  IF ~ToBoolean(value) THEN Threw(h, name \o IsRequired)
           ELSE validateEach(h, props, Tail(keys))

\* validate_ with the test written `value === ''`.
RECURSIVE validateEachEmptyString(_, _, _)
validateEachEmptyString(h, props, keys) ==
  IF Len(keys) = 0 THEN Returned(h, Undefined)
  ELSE IF GetProp(props, keys[1]) = Str(<< >>) THEN Threw(h, keys[1] \o IsRequired)
  ELSE validateEachEmptyString(h, props, Tail(keys))

validate_EmptyString(h, params) ==
  validateEachEmptyString(h, PropsOf(h, params), ObjectKeys(PropsOf(h, params)))

validate_(h, params) ==
  LET props == PropsOf(h, params)
  IN  validateEach(h, props, ObjectKeys(props))

\* A Date, by its time value in milliseconds since the epoch.
Date(ms) == [t |-> "date", ms |-> ms]

getTime(date) == date.ms

\* Math.floor(x / d) for integers x and d > 0.
MathFloorOfQuotient(x, d) == x \div d

\* getTimeInSeconds_ with Math.round in place of Math.floor.
getTimeInSeconds_Round(date) == MathFloorOfQuotient(getTime(date) + 500, 1000)

\* getTimeInSeconds_ with Math.trunc in place of Math.floor.
getTimeInSeconds_Trunc(date) ==
  IF getTime(date) >= 0 THEN MathFloorOfQuotient(getTime(date), 1000)
  ELSE -MathFloorOfQuotient(-getTime(date), 1000)

getTimeInSeconds_(date) == MathFloorOfQuotient(getTime(date), 1000)

\* The loop of extend_ from index i on; it reads source from the heap as the
\* loop left it (destination and source may be the same object).
RECURSIVE extendLoop(_, _, _, _, _)
extendLoop(h, destination, source, keys, i) ==
  IF i > Len(keys) THEN h
  ELSE extendLoop([h EXCEPT ![destination.r] =
                      SetProp(h[destination.r], keys[i], GetProp(h[source.r], keys[i]))],
                  destination, source, keys, i + 1)

\* extend_ that leaves the keys destination already has (a defaults-style
\* merge).
RECURSIVE extendLoopKeeping(_, _, _, _, _)
extendLoopKeeping(h, destination, source, keys, i) ==
  IF i > Len(keys) THEN h
  ELSE extendLoopKeeping(
         IF HasProp(h[destination.r], keys[i]) THEN h
         ELSE [h EXCEPT ![destination.r] =
                 SetProp(h[destination.r], keys[i], GetProp(h[source.r], keys[i]))],
         destination, source, keys, i + 1)

extend_KeepsExisting(h, destination, source) ==
  Returned(extendLoopKeeping(h, destination, source, ObjectKeys(h[source.r]), 1),
           destination)

extend_(h, destination, source) ==
  LET keys == ObjectKeys(h[source.r])
  IN  Returned(extendLoop(h, destination, source, keys, 1), destination)

\* The reduce of toLowerCaseKeys_: result after the keys still to visit.
RECURSIVE lowerReduce(_, _, _)
lowerReduce(result, props, keys) ==
  IF Len(keys) = 0 THEN result
  ELSE lowerReduce(SetProp(result, toLowerCase(keys[1]), GetProp(props, keys[1])),
                   props, Tail(keys))

\* toLowerCaseKeys_ whose reduce keeps the first value written to a key.
RECURSIVE lowerReduceFirst(_, _, _)
lowerReduceFirst(result, props, keys) ==
  IF Len(keys) = 0 THEN result
  ELSE lowerReduceFirst(
         IF HasProp(result, toLowerCase(keys[1])) THEN result
         ELSE SetProp(result, toLowerCase(keys[1]), GetProp(props, keys[1])),
         props, Tail(keys))

toLowerCaseKeys_FirstWins(h, obj) ==
  IF obj.t = "null" \/ ~TypeofIsObject(obj) THEN Returned(h, obj)
  ELSE Returned(Append(h, lowerReduceFirst(<< >>, PropsOf(h, obj),
                                           ObjectKeys(PropsOf(h, obj)))),
                Ref(Len(h) + 1))

toLowerCaseKeys_(h, obj) ==
  IF obj.t = "null" \/ ~TypeofIsObject(obj) THEN Returned(h, obj)
  ELSE LET props == PropsOf(h, obj)
       IN  Returned(Append(h, lowerReduce(<< >>, props, ObjectKeys(props))),
                    Ref(Len(h) + 1))

-----------------------------------------------------------------------------
(* JWT encoding and decoding.                                              *)

\* A 16-bit digest standing for the host's RSA-SHA256: a deterministic
\* function of the text (the position-weighted sum of its bytes).
RECURSIVE WeightedSum(_, _, _)
WeightedSum(s, lo, hi) ==
  IF lo > hi THEN 0
  ELSE IF lo = hi THEN lo * Ord(s[lo])
  ELSE LET mid == (lo + hi) \div 2
       IN  WeightedSum(s, lo, mid) + WeightedSum(s, mid + 1, hi)

Checksum(s, seed) == (seed + WeightedSum(s, 1, Len(s))) % 65536

\* Utilities.computeRsaSha256Signature(toSign, key): the signature bytes; it
\* throws on a key that is no private key (here: the empty string).
computeRsaSha256Signature(toSign, key) ==
  IF Len(key) = 0 THEN [ok |-> FALSE, v |-> << >>]
  ELSE LET d == Checksum(toSign \o << "." >> \o key, 7)
       IN  [ok |-> TRUE, v |-> << d \div 256, d % 256 >>]

computeJWTSignatureDefault_(toSign, key) ==
  LET signatureBytes == computeRsaSha256Signature(toSign, key)
  IN  IF ~signatureBytes.ok THEN [ok |-> FALSE, v |-> << >>]
      ELSE [ok |-> TRUE, v |-> base64EncodeBytes(signatureBytes.v)]

\* A caller-supplied signing function: its digest of the text, a dot, the key.
signWithChecksum(toSign, key) ==
  [ok |-> TRUE, v |-> IntToString(Checksum(toSign, 0)) \o << "." >> \o key]

\* A caller-supplied signing function that returns the same string always.
signConstant(toSign, key) == [ok |-> TRUE, v |-> << "s", "i", "g" >>]

\* The call computeJWTSignature(toSign, key) of the function named `name`.
CallSigner(name, toSign, key) ==
  CASE name = "signWithChecksum" -> signWithChecksum(toSign, key)
    [] name = "signConstant" -> signConstant(toSign, key)
    [] OTHER -> computeJWTSignatureDefault_(toSign, key)

\* The own enumerable properties Object.assign copies from a source.
AssignableProps(h, source) ==
  IF source.t = "str"
    THEN [ i \in DOMAIN source.s |-> << IntToString(i - 1), Str(<< source.s[i] >>) >> ]
    ELSE PropsOf(h, source)

RECURSIVE assignEach(_, _, _)
assignEach(target, props, keys) ==
  IF Len(keys) = 0 THEN target
  ELSE assignEach(SetProp(target, keys[1], GetProp(props, keys[1])), props, Tail(keys))

\* Object.assign(target, source) for a target in the heap: the heap after it.
ObjectAssign(h, target, source) ==
  LET props == AssignableProps(h, source)
  IN  [h EXCEPT ![target.r] = assignEach(h[target.r], props, ObjectKeys(props))]

\* The literal {alg: 'RS256', typ: 'JWT'}.
DefaultHeader ==
  << << << "a", "l", "g" >>, Str(<< "R", "S", "2", "5", "6" >>) >>,
     << << "t", "y", "p" >>, Str(<< "J", "W", "T" >>) >> >>

KeyHeader == << "h", "e", "a", "d", "e", "r" >>

KeyComputeJWTSignature ==
  << "c", "o", "m", "p", "u", "t", "e", "J", "W", "T",
     "S", "i", "g", "n", "a", "t", "u", "r", "e" >>

\* value || {}
OrEmptyObject(value) == IF ToBoolean(value) THEN value ELSE Obj(<< >>)

\* The header with the arguments of Object.assign swapped: the defaults are
\* written over a copy of the caller's fields.
jwtHeader_DefaultsWin(h, customOptions) ==
  LET options == PropsOf(h, OrEmptyObject(customOptions))
      fresh == Ref(Len(h) + 1)
      copy == ObjectAssign(Append(h, << >>), fresh, OrEmptyObject(GetProp(options, KeyHeader)))
  IN  [h |-> ObjectAssign(copy, fresh, Obj(DefaultHeader)), header |-> fresh]

\* The header built in the caller's own header object:
\* Object.assign(customOptions.header || {}, {alg: 'RS256', typ: 'JWT'}).
jwtHeader_IntoCallers(h, customOptions) ==
  LET options == PropsOf(h, OrEmptyObject(customOptions))
      given == GetProp(options, KeyHeader)
      fresh == Ref(Len(h) + 1)
  IN  IF given.t = "ref"
        THEN [h |-> ObjectAssign(Append(h, << >>), given, Obj(DefaultHeader)), header |-> given]
        ELSE [h |-> ObjectAssign(Append(h, AssignableProps(h, OrEmptyObject(given))),
                                 fresh, Obj(DefaultHeader)),
              header |-> fresh]

\* var header = Object.assign({alg: 'RS256', typ: 'JWT'}, customOptions.header || {}):
\* the heap with the new header object in it, and the reference to it.
jwtHeader(h, customOptions) ==
  LET options == PropsOf(h, OrEmptyObject(customOptions))
      fresh == Ref(Len(h) + 1)
  IN  [h |-> ObjectAssign(Append(h, DefaultHeader), fresh,
                          OrEmptyObject(GetProp(options, KeyHeader))),
       header |-> fresh]

\* The objects a call allocated are unreachable once it returns a string: the
\* heap it leaves is the heap of the caller's objects.
encodeJwt_(h, payload, key, customOptions) ==
  LET options == PropsOf(h, OrEmptyObject(customOptions))
      made == jwtHeader(h, customOptions)
      custom == GetProp(options, KeyComputeJWTSignature)
      computeJWTSignature ==
        IF custom.t = "fn" THEN custom.f ELSE "computeJWTSignatureDefault_"
      headerJson == JSONstringify(made.h, made.header, {})
      payloadJson == JSONstringify(made.h, payload, {})
      toSign == base64EncodeWebSafe(headerJson.v) \o << "." >>
                  \o base64EncodeWebSafe(payloadJson.v)
      signature == CallSigner(computeJWTSignature, toSign, key)
      left == SubSeq(made.h, 1, Len(h))
  IN  IF ~headerJson.ok \/ ~payloadJson.ok \/ ~payloadJson.def THEN Threw(left, HostError)
      ELSE IF ~signature.ok THEN Threw(left, HostError)
      ELSE Returned(left, Str(toSign \o << "." >> \o signature.v))

\* decodeJwt_ reading the first segment: jwt.split('.')[0].
decodeJwt_FirstSegment(h, jwt) ==
  LET bytes == base64DecodeWebSafe(split(jwt, ".")[1])
  IN  IF ~bytes.ok THEN Threw(h, HostError)
      ELSE LET parsed == JSONparse(getDataAsString(bytes.v))
           IN  IF ~parsed.ok THEN Threw(h, HostError) ELSE Returned(h, parsed.v)

\* decodeJwt_ that refuses a token that has not exactly three segments.
decodeJwt_ThreeSegments(h, jwt) ==
  LET parts == split(jwt, ".")
  IN  IF Len(parts) # 3 THEN Threw(h, HostError)
      ELSE LET bytes == base64DecodeWebSafe(parts[2])
           IN  IF ~bytes.ok THEN Threw(h, HostError)
               ELSE LET parsed == JSONparse(getDataAsString(bytes.v))
                    IN  IF ~parsed.ok THEN Threw(h, HostError) ELSE Returned(h, parsed.v)

decodeJwt_(h, jwt) ==
  LET parts == split(jwt, ".")
  IN  IF Len(parts) < 2 THEN Threw(h, HostError)   \* base64DecodeWebSafe(undefined)
      ELSE LET payload == parts[2]
               bytes == base64DecodeWebSafe(payload)
           IN  IF ~bytes.ok THEN Threw(h, HostError)
               ELSE LET parsed == JSONparse(getDataAsString(bytes.v))
                    IN  IF ~parsed.ok THEN Threw(h, HostError)
                        ELSE Returned(h, parsed.v)

-----------------------------------------------------------------------------
(* The callers: the objects, strings and timestamps the functions are      *)
(* called with.                                                            *)

\* Timestamps run from -MaxMs to MaxMs milliseconds around the epoch.
MaxMs == 1200

Timestamps == (-MaxMs)..MaxMs

\* Objects the callers hold.
\* {B: 'x y', a: '1'}: no falsy value, an upper-case key, a space to encode
ObjPlain ==
  << << << "B" >>, Str(<< "x", " ", "y" >>) >>, << << "a" >>, Str(<< "1" >>) >> >>

\* {b: 0, '2': '', c: 'v'}: two falsy values; Object.keys puts '2' first
ObjFalsy ==
  << << << "b" >>, Num(0) >>, << << "2" >>, Str(<< >>) >>, << << "c" >>, Str(<< "v" >>) >> >>

\* {A: 1, a: 2}: two keys that lower-case to the same key
ObjCase == << << << "A" >>, Num(1) >>, << << "a" >>, Num(2) >> >>

\* {'q&': 'a=b?', N: null}
ObjQuery ==
  << << << "q", "&" >>, Str(<< "a", "=", "b", "?" >>) >>, << << "N" >>, Null >> >>

\* {u: undefined, f: false, sub: <object 1>}
ObjNested ==
  << << << "u" >>, Undefined >>, << << "f" >>, Bool(FALSE) >>,
     << << "s", "u", "b" >>, Ref(1) >> >>

\* {alg: 'HS256', kid: '"7\'}: a header override, a string JSON must escape
ObjHeader ==
  << << << "a", "l", "g" >>, Str(<< "H", "S", "2", "5", "6" >>) >>,
     << << "k", "i", "d" >>, Str(<< "\"", "7", "\\" >>) >> >>

\* {iss: 'me', exp: -12, n: {t: true, z: null}}
ObjClaims ==
  << << << "i", "s", "s" >>, Str(<< "m", "e" >>) >>,
     << << "e", "x", "p" >>, Num(-12) >>,
     << << "n" >>, Obj(<< << << "t" >>, Bool(TRUE) >>, << << "z" >>, Null >> >>) >> >>

\* {header: <object 1>, computeJWTSignature: signWithChecksum}
OptHeaderRef ==
  << << KeyHeader, Ref(1) >>, << KeyComputeJWTSignature, Fn("signWithChecksum") >> >>

\* {computeJWTSignature: signWithChecksum, header: {kid: 'k', typ: 'at', '5': 1}}
OptHeaderInline ==
  << << KeyComputeJWTSignature, Fn("signWithChecksum") >>,
     << KeyHeader, Obj(<< << << "k", "i", "d" >>, Str(<< "k" >>) >>,
                          << << "t", "y", "p" >>, Str(<< "a", "t" >>) >>,
                          << << "5" >>, Num(1) >> >>) >> >>

\* {computeJWTSignature: 'no', header: {alg: 'none'}}: the signer is no function
OptNoFunction ==
  << << KeyComputeJWTSignature, Str(<< "n", "o" >>) >>,
     << KeyHeader, Obj(<< << << "a", "l", "g" >>, Str(<< "n", "o", "n", "e" >>) >> >>) >> >>

\* {computeJWTSignature: signConstant}
OptConstant == << << KeyComputeJWTSignature, Fn("signConstant") >> >>

\* {header: <object 2>}: as object 2, its header is the options object itself
OptCyclic == << << KeyHeader, Ref(2) >> >>

\* The heaps the callers start from: two objects each.
HeapPool ==
  { << ObjPlain, ObjCase >>,
    << ObjFalsy, ObjQuery >>,
    << << >>, ObjNested >>,
    << ObjHeader, OptHeaderRef >>,
    << ObjClaims, OptHeaderInline >>,
    << ObjClaims, OptNoFunction >>,
    << ObjPlain, OptConstant >>,
    << ObjCase, OptCyclic >> }

Urls ==
  { << "h", ":", "/", "/", "x", "/", "a" >>,
    << "h", ":", "/", "/", "x", "/", "a", "?", "x", "=", "1" >>,
    << "?" >> }

\* Signing keys; the empty string is no private key.
Keys == { << "k", "1" >>, << >> }

\* A payload that is no object: the string 'a.b'.
PayloadPrimitives == { Str(<< "a", ".", "b" >>) }

\* Values that are not objects, for toLowerCaseKeys_.
Primitives == { Null, Undefined, Num(5), Str(<< "A", "b" >>) }

NoCall == [op |-> "none", args |-> << >>, ok |-> TRUE, ret |-> Undefined, fresh |-> 0]

\* The caller's objects: the heap without the object the previous call
\* allocated and returned, which the caller has dropped by the next call.
Live == SubSeq(heap, 1, Len(heap) - last.fresh)

Refs == { Ref(r) : r \in DOMAIN Live }

\* A call of `op` with `args` that yielded `r` from the heap `Live`.
Call(op, args, r) ==
  /\ heap' = r.h
  /\ last' = [op |-> op, args |-> args, ok |-> r.ok, ret |-> r.v,
              fresh |-> Len(r.h) - Len(Live)]

\* The header '{"alg":"none"}' an attacker may put in, and a payload segment
\* that is base64 of the text '{' (no JSON).
OtherHeader == base64EncodeWebSafe(<< "{", "\"", "a", "l", "g", "\"", ":", "\"", "n", "o", "n", "e", "\"", "}" >>)

NotJsonPayload == base64EncodeWebSafe(<< "{" >>)

\* Token strings that are no tokens: one segment only; a second segment that
\* is not base64.
BrokenTokens == { OtherHeader, << "x", ".", "e", "!", ".", "y" >> }

\* The token strings a caller holding the token t may hand to decodeJwt_: t
\* itself, and t with its header segment, its payload segment or its signature
\* segments replaced or dropped.
TokenVariants(t) ==
  LET parts == split(t, ".")
      headers == { parts[1], OtherHeader }
      payloads == IF Len(parts) >= 2 THEN { parts[2], NotJsonPayload } ELSE { NotJsonPayload }
      tails == { SubSeq(parts, 3, Len(parts)), << >>, << << "x" >>, << "y" >> >> }
  IN  { t } \cup BrokenTokens \cup
      { join(<< hd, pl >> \o tl, << "." >>) : hd \in headers, pl \in payloads, tl \in tails }

\* The token the caller holds: the one just encoded or just decoded.
HeldTokens ==
  IF last.op = "encodeJwt_" /\ last.ok THEN { last.ret.s }
  ELSE IF last.op = "decodeJwt_" THEN { last.args[1].s }
  ELSE { }

-----------------------------------------------------------------------------
(* The state machine: one action per function, each a whole call.          *)

Init ==
  /\ heap \in HeapPool
  /\ last = NoCall

BuildUrl ==
  \E url \in Urls, params \in Refs :
    Call("buildUrl_", << Str(url), params >>, buildUrl_(Live, url, params))

Validate ==
  \E params \in Refs :
    Call("validate_", << params >>, validate_(Live, params))

GetTimeInSeconds ==
  \E ms \in Timestamps :
    Call("getTimeInSeconds_", << Date(ms) >>,
         Returned(Live, Num(getTimeInSeconds_(Date(ms)))))

Extend ==
  \E destination \in Refs, source \in Refs :
    Call("extend_", << destination, source >>, extend_(Live, destination, source))

ToLowerCaseKeys ==
  \E obj \in Refs \cup Primitives :
    Call("toLowerCaseKeys_", << obj >>, toLowerCaseKeys_(Live, obj))

EncodeJwt ==
  \E payload \in Refs \cup PayloadPrimitives, key \in Keys,
     customOptions \in Refs \cup { Undefined } :
    Call("encodeJwt_", << payload, Str(key), customOptions >>,
         encodeJwt_(Live, payload, key, customOptions))

DecodeJwt ==
  \E held \in HeldTokens :
    \E jwt \in TokenVariants(held) :
      Call("decodeJwt_", << Str(jwt) >>, decodeJwt_(Live, jwt))

Next ==
  \/ BuildUrl
  \/ Validate
  \/ Extend
  \/ ToLowerCaseKeys
  \/ EncodeJwt
  \/ DecodeJwt

Spec == Init /\ [][Next]_vars

\* getTimeInSeconds_ alone, over every timestamp of the range.
InitTime ==
  /\ heap = << >>
  /\ last = NoCall

NextTime == GetTimeInSeconds

SpecTime == InitTime /\ [][NextTime]_vars

-----------------------------------------------------------------------------
(* Properties.                                                             *)

Min(S) == CHOOSE x \in S : \A y \in S : x <= y

Max(S) == CHOOSE x \in S : \A y \in S : x >= y

KeySet(props) == { props[i][1] : i \in DOMAIN props }

\* The falsy values: the empty string, null, undefined, 0 and false.
IsFalsy(v) ==
  v = Str(<< >>) \/ v = Null \/ v = Undefined \/ v = Num(0) \/ v = Bool(FALSE)

\* The positions, in key iteration order, of the falsy values of an object.
FalsyPositions(props) ==
  { i \in DOMAIN ObjectKeys(props) : IsFalsy(GetProp(props, ObjectKeys(props)[i])) }

\* C1: validate_ returns when no value of the map is falsy, and otherwise
\* throws '<key> is required.' for the first falsy-valued key in key iteration
\* order, never for a later one.
C1_ValidateFirstFalsy ==
  last.op = "validate_" =>
    LET props == heap[last.args[1].r]
        keys == ObjectKeys(props)
        falsy == FalsyPositions(props)
    IN  IF falsy = {} THEN last.ok
        ELSE /\ ~last.ok
             /\ last.ret = Str(keys[Min(falsy)] \o
                  << " ", "i", "s", " ", "r", "e", "q", "u", "i", "r", "e", "d", "." >>)

\* validate_ threw on a map with two falsy values, the first of which in
\* iteration order is not the first inserted.
C1_Witness ==
  /\ last.op = "validate_"
  /\ ~last.ok
  /\ Cardinality(FalsyPositions(heap[last.args[1].r])) >= 2
  /\ heap[last.args[1].r][1][1] # ObjectKeys(heap[last.args[1].r])[1]

HexValue(c) == (CHOOSE i \in DOMAIN HexDigits : HexDigits[i] = c) - 1

IsHexDigit(c) == \E i \in DOMAIN HexDigits : HexDigits[i] = c

\* A percent-encoded string: unreserved characters and %XX triples only.
IsPercentEncoded(s) ==
  \A i \in DOMAIN s :
    \/ UriUnreserved(s[i]) /\ (i < 2 \/ s[i - 1] # "%") /\ (i < 3 \/ s[i - 2] # "%")
    \/ s[i] = "%" /\ i + 2 <= Len(s) /\ IsHexDigit(s[i + 1]) /\ IsHexDigit(s[i + 2])
    \/ i > 1 /\ s[i - 1] = "%" /\ IsHexDigit(s[i])
    \/ i > 2 /\ s[i - 2] = "%" /\ IsHexDigit(s[i])

RECURSIVE PercentDecode(_)
PercentDecode(s) ==
  IF Len(s) = 0 THEN << >>
  ELSE IF s[1] = "%" /\ Len(s) >= 3
    THEN << Chr(HexValue(s[2]) * 16 + HexValue(s[3])) >> \o PercentDecode(SubSeq(s, 4, Len(s)))
  ELSE << s[1] >> \o PercentDecode(Tail(s))

\* C4: buildUrl_ returns url, one separator ('&' if url contains '?', else
\* '?'), then one 'key=value' pair per key, in key iteration order, joined by
\* '&', each key and value percent-encoded.
C4_BuildUrlQuery ==
  last.op = "buildUrl_" =>
    LET url == last.args[1].s
        props == heap[last.args[2].r]
        keys == ObjectKeys(props)
        out == last.ret.s
        query == SubSeq(out, Len(url) + 2, Len(out))
        pieces == IF Len(keys) = 0 THEN << >> ELSE split(query, "&")
    IN  /\ last.ok
        /\ Len(out) >= Len(url) + 1
        /\ SubSeq(out, 1, Len(url)) = url
        /\ out[Len(url) + 1] = (IF "?" \in Range(url) THEN "&" ELSE "?")
        /\ Len(keys) = 0 => Len(query) = 0
        /\ Len(pieces) = Len(keys)
        /\ \A i \in DOMAIN pieces :
             LET kv == split(pieces[i], "=")
             IN  /\ Len(kv) = 2
                 /\ IsPercentEncoded(kv[1])
                 /\ IsPercentEncoded(kv[2])
                 /\ PercentDecode(kv[1]) = keys[i]
                 /\ PercentDecode(kv[2]) = ToStringJS(GetProp(props, keys[i]))

\* buildUrl_ appended, to a url that has a '?', two parameters or more of
\* which one needed encoding.
C4_Witness ==
  /\ last.op = "buildUrl_"
  /\ "?" \in Range(last.args[1].s)
  /\ Len(heap[last.args[2].r]) >= 2
  /\ "%" \in Range(last.ret.s)

TimeOf(call) == call.args[1].ms

\* C7: getTimeInSeconds_ floors: its result s for the timestamp t satisfies
\* s*1000 <= t < (s+1)*1000; and it is monotonic: of two calls with
\* timestamps t1 <= t2 the first result is <= the second.
C7_FloorsAndMonotonic ==
  [][ /\ last'.op = "getTimeInSeconds_" =>
           /\ last'.ret.n * 1000 <= TimeOf(last')
           /\ TimeOf(last') < (last'.ret.n + 1) * 1000
      /\ ( /\ last.op = "getTimeInSeconds_"
           /\ last'.op = "getTimeInSeconds_"
           /\ TimeOf(last) <= TimeOf(last') ) => last.ret.n <= last'.ret.n ]_vars

\* getTimeInSeconds_ was called on a timestamp before the epoch with a
\* sub-second part.
C7_Witness ==
  /\ last.op = "getTimeInSeconds_"
  /\ TimeOf(last) < -1000
  /\ TimeOf(last) % 1000 # 0

\* The quotient x / d with its fractional part discarded toward zero.
TruncatedQuotient(x, d) == IF x >= 0 THEN x \div d ELSE -((-x) \div d)

\* C8 as claimed: getTimeInSeconds_ truncates toward zero for every timestamp,
\* those before the epoch included.
C8_TruncatesTowardZero ==
  last.op = "getTimeInSeconds_" => last.ret.n = TruncatedQuotient(TimeOf(last), 1000)

\* C8 amended: getTimeInSeconds_ rounds toward minus infinity: its result is
\* the truncated quotient for a timestamp at or after the epoch or a whole
\* number of seconds, and one less for any other timestamp before the epoch.
C8_RoundsDown ==
  last.op = "getTimeInSeconds_" =>
    last.ret.n = IF TimeOf(last) < 0 /\ TimeOf(last) % 1000 # 0
                   THEN TruncatedQuotient(TimeOf(last), 1000) - 1
                   ELSE TruncatedQuotient(TimeOf(last), 1000)

\* getTimeInSeconds_ was called on -1 ms and returned -1.
C8_Witness ==
  /\ last.op = "getTimeInSeconds_"
  /\ TimeOf(last) = -1
  /\ last.ret.n = -1

\* C5: extend_ returns the destination object it was given; afterwards every
\* key of source maps in destination to source's value, every other key of
\* destination keeps its value, and source is unchanged.
C5_ExtendMerges ==
  [][ last'.op = "extend_" =>
        LET d == last'.args[1].r
            s == last'.args[2].r
        IN  /\ last'.ok
            /\ last'.ret = Ref(d)
            /\ last'.fresh = 0
            /\ \A k \in KeySet(Live[s]) : GetProp(heap'[d], k) = GetProp(Live[s], k)
            /\ \A k \in KeySet(Live[d]) \ KeySet(Live[s]) :
                 GetProp(heap'[d], k) = GetProp(Live[d], k)
            /\ heap'[s] = Live[s] ]_vars

\* extend_ has merged a source into another object that has a key of the
\* source (with the source's value) and a key the source has not.
C5_Witness ==
  /\ last.op = "extend_"
  /\ last.args[1] # last.args[2]
  /\ KeySet(heap[last.args[2].r]) # {}
  /\ KeySet(heap[last.args[1].r]) \ KeySet(heap[last.args[2].r]) # {}
  /\ heap \notin HeapPool

\* The position, in key iteration order, of the last key that lower-cases to rk.
LastPositionOf(keys, rk) == Max({ i \in DOMAIN keys : toLowerCase(keys[i]) = rk })

\* C6: toLowerCaseKeys_ returns null and non-objects as they are; of an object
\* it returns a new object whose keys are the lower-cased keys of the input,
\* each with the value of the last input key that lower-cases to it.
C6_LowerCaseKeys ==
  last.op = "toLowerCaseKeys_" =>
    LET obj == last.args[1]
    IN  IF obj.t # "ref"
          THEN last.ok /\ last.ret = obj /\ last.fresh = 0
          ELSE LET props == heap[obj.r]
                   keys == ObjectKeys(props)
               IN  /\ last.ok
                   /\ last.ret.t = "ref"
                   /\ last.ret # obj
                   /\ last.fresh = 1
                   /\ last.ret.r = Len(heap)
                   /\ KeySet(heap[last.ret.r]) = { toLowerCase(keys[i]) : i \in DOMAIN keys }
                   /\ \A rk \in KeySet(heap[last.ret.r]) :
                        GetProp(heap[last.ret.r], rk)
                          = GetProp(props, keys[LastPositionOf(keys, rk)])

\* toLowerCaseKeys_ was called on an object with two keys that lower-case to
\* the same key and hold different values.
C6_Witness ==
  /\ last.op = "toLowerCaseKeys_"
  /\ last.args[1].t = "ref"
  /\ \E i, j \in DOMAIN heap[last.args[1].r] :
       /\ i # j
       /\ toLowerCase(heap[last.args[1].r][i][1]) = toLowerCase(heap[last.args[1].r][j][1])
       /\ heap[last.args[1].r][i][2] # heap[last.args[1].r][j][2]

IsObjectValue(v) == v.t \in {"ref", "obj"}

\* A value JSON can carry: no undefined, no function, no cycle.
RECURSIVE IsJsonValue(_, _, _)
IsJsonValue(h, v, visited) ==
  IF v.t \in {"str", "num", "bool", "null"} THEN TRUE
  ELSE IF v.t = "obj"
    THEN \A i \in DOMAIN v.p : IsJsonValue(h, v.p[i][2], visited)
  ELSE IF v.t = "ref"
    THEN /\ v.r \notin visited
         /\ \A i \in DOMAIN h[v.r] : IsJsonValue(h, h[v.r][i][2], visited \cup {v.r})
  ELSE FALSE

\* Deep equality of two values: objects by their keys and, key by key, their
\* values; anything else by identity of value.
RECURSIVE DeepEqual(_, _, _)
DeepEqual(h, a, b) ==
  IF IsObjectValue(a) /\ IsObjectValue(b)
    THEN /\ KeySet(PropsOf(h, a)) = KeySet(PropsOf(h, b))
         /\ \A k \in KeySet(PropsOf(h, a)) :
              DeepEqual(h, GetProp(PropsOf(h, a), k), GetProp(PropsOf(h, b), k))
    ELSE a = b

\* C2: decodeJwt_ of the token encodeJwt_ returned for a JSON-serializable
\* payload, whatever the key and the signing function, returns a value
\* deep-equal to the payload.
C2_RoundTrip ==
  [][ ( /\ last.op = "encodeJwt_"
        /\ last.ok
        /\ IsJsonValue(heap, last.args[1], {})
        /\ last'.op = "decodeJwt_"
        /\ last'.args[1] = last.ret )
      => /\ last'.ok
         /\ DeepEqual(heap', last.args[1], last'.ret) ]_vars

\* decodeJwt_ returned after decoding the token that encodeJwt_ makes, with a
\* caller's signing function, of a payload that has a nested object.
C2_Witness ==
  /\ last.op = "decodeJwt_"
  /\ last.ok
  /\ \E payload \in { Ref(r) : r \in DOMAIN heap }, options \in { Ref(r) : r \in DOMAIN heap } :
       /\ IsJsonValue(heap, payload, {})
       /\ \E i \in DOMAIN heap[payload.r] : IsObjectValue(heap[payload.r][i][2])
       /\ GetProp(heap[options.r], KeyComputeJWTSignature).t = "fn"
       /\ encodeJwt_(heap, payload, << "k", "1" >>, options).v = last.args[1]

\* The text a base64url segment decodes to, and the JSON value of that text.
SegmentJson(segment) == JSONparse(getDataAsString(base64DecodeWebSafe(segment).v))

\* The value of key k in the default header overridden by the caller's fields.
MergedValue(callers, k) ==
  IF HasProp(callers, k) THEN GetProp(callers, k) ELSE GetProp(DefaultHeader, k)

\* C3: with a header and a signing function in customOptions, the token is
\* '<h>.<p>.<s>': <h> the base64url JSON of the default header overridden by
\* the caller's fields, <p> the base64url JSON of the payload, <s> what the
\* caller's function returns for ('<h>.<p>', key).
C3_OptionsHonored ==
  ( /\ last.op = "encodeJwt_"
    /\ last.ok
    /\ last.args[3].t = "ref"
    /\ IsObjectValue(GetProp(heap[last.args[3].r], KeyHeader))
    /\ GetProp(heap[last.args[3].r], KeyComputeJWTSignature).t = "fn" )
  => LET options == heap[last.args[3].r]
         callers == PropsOf(heap, GetProp(options, KeyHeader))
         parts == split(last.ret.s, ".")
         header == SegmentJson(parts[1])
         merged == { k \in KeySet(callers) \cup KeySet(DefaultHeader) :
                       MergedValue(callers, k).t \notin {"undef", "fn"} }
         toSign == parts[1] \o << "." >> \o parts[2]
     IN  /\ Len(parts) >= 3
         /\ base64DecodeWebSafe(parts[1]).ok
         /\ base64EncodeWebSafe(getDataAsString(base64DecodeWebSafe(parts[1]).v)) = parts[1]
         /\ header.ok
         /\ header.v.t = "obj"
         /\ KeySet(header.v.p) = merged
         /\ \A k \in merged : DeepEqual(heap, MergedValue(callers, k), GetProp(header.v.p, k))
         /\ parts[2] = base64EncodeWebSafe(JSONstringify(heap, last.args[1], {}).v)
         /\ last.ret.s = toSign \o << "." >>
              \o CallSigner(GetProp(options, KeyComputeJWTSignature).f, toSign, last.args[2].s).v

\* encodeJwt_ returned a token for a caller's header that overrides one
\* default field, keeps the other and adds fields, and a caller's function.
C3_Witness ==
  /\ last.op = "encodeJwt_"
  /\ last.ok
  /\ last.args[3].t = "ref"
  /\ GetProp(heap[last.args[3].r], KeyComputeJWTSignature) = Fn("signWithChecksum")
  /\ IsObjectValue(GetProp(heap[last.args[3].r], KeyHeader))
  /\ LET callers == KeySet(PropsOf(heap, GetProp(heap[last.args[3].r], KeyHeader)))
     IN  /\ callers \cap KeySet(DefaultHeader) # {}
         /\ KeySet(DefaultHeader) \ callers # {}
         /\ callers \ KeySet(DefaultHeader) # {}

SecondSegment(call) == split(call.args[1].s, ".")[2]

HasSecondSegment(call) == Len(split(call.args[1].s, ".")) >= 2

\* C9: decodeJwt_ reads the second segment only: of two tokens with the same
\* second segment, whatever their header, signature and number of segments,
\* it returns equal payloads, or fails on both.
C9_SecondSegmentOnly ==
  [][ ( /\ last.op = "decodeJwt_"
        /\ last'.op = "decodeJwt_"
        /\ HasSecondSegment(last)
        /\ HasSecondSegment(last')
        /\ SecondSegment(last) = SecondSegment(last') )
      => /\ last'.ok = last.ok
         /\ last'.ret = last.ret ]_vars

\* decodeJwt_ returned a payload for a token whose header is the attacker's
\* and whose signature is two segments that no signer made.
C9_Witness ==
  /\ last.op = "decodeJwt_"
  /\ last.ok
  /\ LET parts == split(last.args[1].s, ".")
     IN  /\ Len(parts) = 4
         /\ parts[1] = OtherHeader
         /\ parts[2] # NotJsonPayload
         /\ parts[3] = << "x" >>

\* C10: extend_ writes to its destination only, and buildUrl_, validate_,
\* toLowerCaseKeys_, encodeJwt_ and decodeJwt_ leave every object of the
\* caller as it was (the caller's header object never receives alg or typ);
\* encodeJwt_ called again with the same arguments yields the same token.
C10_OnlyExtendMutates ==
  [][ /\ last'.op \in {"buildUrl_", "validate_", "toLowerCaseKeys_", "encodeJwt_", "decodeJwt_"}
        => SubSeq(heap', 1, Len(Live)) = Live
      /\ last'.op = "extend_"
        => \A r \in DOMAIN Live : r # last'.args[1].r => heap'[r] = Live[r]
      /\ ( /\ last.op = "encodeJwt_"
           /\ last'.op = "encodeJwt_"
           /\ last'.args = last.args )
         => last'.ret = last.ret ]_vars

\* encodeJwt_ returned a token made with the caller's header object, which
\* is as the caller made it.
C10_Witness ==
  /\ last.op = "encodeJwt_"
  /\ last.ok
  /\ last.args[3] = Ref(2)
  /\ heap = << ObjHeader, OptHeaderRef >>

=============================================================================
